---- MODULE Spec2Model ----
(***************************************************************************)
(* Merkle inclusion check of sp1-goldinals.                                *)
(*                                                                         *)
(*   script/src/bin/main.rs, evm.rs  the host: derives the leaves, builds  *)
(*       the tree, picks a leaf, generates and encodes its proof, writes   *)
(*       five values to the input channel and decodes the committed output *)
(*   program/src/main.rs             the Driver: reads the five values,    *)
(*       decodes the proof, verifies it, commits root ++ leaf ++ validity  *)
(*                                                                         *)
(* Tree, proof and codec are the rs_merkle calls the sources make          *)
(* (MerkleTree::from_leaves, root, proof, MerkleProof::to_bytes,           *)
(* from_bytes, verify) with the Hasher the sources define; they are        *)
(* modelled here for the single-index use the sources make of them.        *)
(* SHA-256 is modelled collision-free: a digest is 32 symbolic bytes       *)
(* that name the hashed input.                                             *)
(***************************************************************************)
EXTENDS Integers, Sequences, FiniteSets, TLC

VARIABLES hpc, mode, total_leaves, leaf_index, tree, root, leaf, proof_bytes,
          stdin, dpc, is_valid, output, report

vars == <<hpc, mode, total_leaves, leaf_index, tree, root, leaf, proof_bytes,
          stdin, dpc, is_valid, output, report>>

\* Largest --total-leaves the host is started with.
MaxLeaves == 7

\* type Hash = [u8; 32]
HashSize == 32

\* width of usize::to_le_bytes on the host
UsizeBytes == 8

None == <<>>

----------------------------------------------------------------------------
(* Bytes and digests *)

\* The 32 bytes of the digest named id.
DigestOf(id) == [k \in 1..HashSize |-> <<id, k>>]

\* A 32-byte chunk names its digest when it is that digest's bytes in order;
\* any other chunk is named by its raw bytes.
IdOf(chunk) ==
    IF chunk = DigestOf(chunk[1][1]) THEN chunk[1][1] ELSE <<"raw", chunk>>

\* What is hashed, in a canonical form: two digests for a 64-byte input.
Preimage(data) ==
    IF Len(data) = 2 * HashSize
    THEN <<IdOf(SubSeq(data, 1, HashSize)),
           IdOf(SubSeq(data, HashSize + 1, 2 * HashSize))>>
    ELSE data

\* A broken hash: every input has the same digest.
hashConstant(data) == DigestOf(<<"sha256", <<>>>>)

\* Sha256Hasher::hash: SHA-256 of data.
hash(data) == DigestOf(<<"sha256", Preimage(data)>>)

\* A parent that hashes a lone left node with itself.
concat_and_hashDuplicate(left, right) ==
    IF right = None THEN hash(left \o left) ELSE hash(left \o right)

\* Hasher::concat_and_hash (the default the sources keep): a node without a
\* right sibling is propagated unchanged.
concat_and_hash(left, right) ==
    IF right = None THEN left ELSE hash(left \o right)

RECURSIVE ShiftBytes(_, _)
ShiftBytes(i, k) == IF k = 0 THEN i ELSE ShiftBytes(i \div 256, k - 1)

\* usize::to_le_bytes: the low byte first.
ToLeBytes(i) == [k \in 1..UsizeBytes |-> ShiftBytes(i, k - 1) % 256]

\* leaves[i] = Sha256(i.to_le_bytes()), i in 0..total_leaves
Leaves(n) == [i \in 1..n |-> hash(ToLeBytes(i - 1))]

\* A digest that is no node of any tree.
Junk == DigestOf(<<"junk", <<>>>>)

----------------------------------------------------------------------------
(* rs_merkle, as the sources call it *)

RECURSIVE CeilLog2From(_, _)
CeilLog2From(n, d) == IF 2 ^ d >= n THEN d ELSE CeilLog2From(n, d + 1)

\* utils::indices::tree_depth
tree_depth(leaves_count) ==
    IF leaves_count = 1 THEN 1 ELSE CeilLog2From(leaves_count, 0)

DivCeil(a, b) == (a + b - 1) \div b

\* One step of PartialTree::build_tree over a full layer.
ParentLayer(layer) ==
    [j \in 1..DivCeil(Len(layer), 2) |->
        concat_and_hash(layer[2 * j - 1],
                        IF 2 * j <= Len(layer) THEN layer[2 * j] ELSE None)]

RECURSIVE build_tree(_, _)
build_tree(layer, depth) ==
    IF depth = 0 THEN <<layer>>
    ELSE <<layer>> \o build_tree(ParentLayer(layer), depth - 1)

\* MerkleTree::from_leaves: the layers, leaves first.
from_leaves(leaves) ==
    IF Len(leaves) = 0 THEN <<>>
    ELSE build_tree(leaves, tree_depth(Len(leaves)))

\* MerkleTree::root: None for a tree without leaves.
tree_root(t) == IF Len(t) = 0 THEN None ELSE t[Len(t)][1]

get_sibling_index(index) == IF index % 2 = 0 THEN index + 1 ELSE index - 1

RECURSIVE helper_nodes(_, _, _)
helper_nodes(t, k, index) ==
    IF k > Len(t) THEN <<>>
    ELSE (IF get_sibling_index(index) < Len(t[k])
          THEN <<t[k][get_sibling_index(index) + 1]>>
          ELSE <<>>)
         \o helper_nodes(t, k + 1, index \div 2)

RECURSIVE helper_nodesPadded(_, _, _)
helper_nodesPadded(t, k, index) ==
    IF k >= Len(t) THEN <<>>
    ELSE (IF get_sibling_index(index) < Len(t[k])
          THEN <<t[k][get_sibling_index(index) + 1]>>
          ELSE <<t[k][index + 1]>>)
         \o helper_nodesPadded(t, k + 1, index \div 2)

\* A generator that emits one entry per layer transition, the carried node
\* itself where it has no sibling.
tree_proofPadded(t, index) == helper_nodesPadded(t, 1, index)

\* MerkleTree::proof(&[index]): the sibling of the path node in every layer
\* that has one.
tree_proof(t, index) == helper_nodes(t, 1, index)

RECURSIVE Flatten(_)
Flatten(hashes) ==
    IF hashes = <<>> THEN <<>> ELSE Head(hashes) \o Flatten(Tail(hashes))

RECURSIVE FlattenReversed(_)
FlattenReversed(hashes) ==
    IF hashes = <<>> THEN <<>>
    ELSE FlattenReversed(Tail(hashes)) \o Head(hashes)

\* An encoder that writes the last hash first.
to_bytesReversed(hashes) == FlattenReversed(hashes)

\* MerkleProof::to_bytes
to_bytes(hashes) == Flatten(hashes)

Chunks(bytes) ==
    [j \in 1..(Len(bytes) \div HashSize) |->
        SubSeq(bytes, (j - 1) * HashSize + 1, j * HashSize)]

\* MerkleProof::from_bytes
from_bytes(bytes) ==
    IF Len(bytes) % HashSize # 0
    THEN [ok |-> FALSE, hashes |-> <<>>]
    ELSE [ok |-> TRUE, hashes |-> Chunks(bytes)]

RECURSIVE LayerSize(_, _)
LayerSize(leaves_count, k) ==
    IF k = 0 THEN leaves_count ELSE DivCeil(LayerSize(leaves_count, k - 1), 2)

\* utils::indices::proof_indices_by_layers for one leaf: whether layer k
\* contributes a proof hash (the last node of an uneven layer has no sibling).
NeedsSibling(index, leaves_count, k) ==
    ~ (LayerSize(leaves_count, k) % 2 = 1
       /\ index \div (2 ^ k) = LayerSize(leaves_count, k) - 1)

RECURSIVE HashesNeeded(_, _, _)
HashesNeeded(index, leaves_count, depth) ==
    IF depth = 0 THEN 0
    ELSE HashesNeeded(index, leaves_count, depth - 1)
         + (IF NeedsSibling(index, leaves_count, depth - 1) THEN 1 ELSE 0)

\* A recombination that always puts the path node on the left.
CombineLeftOnly(node, current, sibling) == concat_and_hash(current, sibling)

\* The parent of the path node and its sibling, the lower index on the left.
Combine(node, current, sibling) ==
    IF get_sibling_index(node) < node
    THEN concat_and_hash(sibling, current)
    ELSE concat_and_hash(current, sibling)

RECURSIVE Climb(_, _, _, _, _, _)
Climb(index, leaves_count, depth, k, current, hashes) ==
    IF k = depth THEN current
    ELSE IF NeedsSibling(index, leaves_count, k)
         THEN Climb(index, leaves_count, depth, k + 1,
                    Combine(index \div (2 ^ k), current, Head(hashes)),
                    Tail(hashes))
         ELSE Climb(index, leaves_count, depth, k + 1,
                    concat_and_hash(current, None), hashes)

\* MerkleProof::root(&[index], &[leaf], total): "panic" when a layer asks for
\* more proof hashes than are left, "err" when no root can be extracted.
proof_root(hashes, index, leaf_hash, total_leaves_count) ==
    LET depth == tree_depth(total_leaves_count)
    IN  IF HashesNeeded(index, total_leaves_count, depth) > Len(hashes)
        THEN [kind |-> "panic", hash |-> None]
        ELSE IF depth = 0
        THEN [kind |-> "err", hash |-> None]
        ELSE [kind |-> "ok",
              hash |-> Climb(index, total_leaves_count, depth, 0,
                             leaf_hash, hashes)]

\* A verification that accepts whatever root the proof extracts.
proof_verifyAny(hashes, r, index, leaf_hash, total_leaves_count) ==
    LET got == proof_root(hashes, index, leaf_hash, total_leaves_count)
    IN  IF got.kind = "panic" THEN "panic"
        ELSE IF got.kind = "ok" THEN "true" ELSE "false"

\* MerkleProof::verify: an extraction error is the result false.
proof_verify(hashes, r, index, leaf_hash, total_leaves_count) ==
    LET got == proof_root(hashes, index, leaf_hash, total_leaves_count)
    IN  IF got.kind = "panic" THEN "panic"
        ELSE IF got.kind = "ok" /\ got.hash = r THEN "true" ELSE "false"

----------------------------------------------------------------------------
(* The channel between host and Driver *)

\* stdin.write(&root) ... stdin.write(&args.total_leaves), in this order.
WriteInputs(r, l, pb, i, n) == <<r, l, pb, i, n>>

\* A Driver that reads the leaf before the root.
ReadInputsSwapped(ch) ==
    [root |-> ch[2], leaf |-> ch[1], proof_bytes |-> ch[3],
     leaf_index |-> ch[4], total_leaves |-> ch[5]]

\* The five sp1_zkvm::io::read() calls of the Driver, in this order.
ReadInputs(ch) ==
    [root |-> ch[1], leaf |-> ch[2], proof_bytes |-> ch[3],
     leaf_index |-> ch[4], total_leaves |-> ch[5]]

\* A proof parser that falls back to what it can decode.
ParseProofLenient(bytes) == [panic |-> FALSE, hashes |-> Chunks(bytes)]

\* MerkleProof::from_bytes(&proof_bytes).expect("Failed to parse proof")
ParseProof(bytes) ==
    [panic |-> ~ from_bytes(bytes).ok, hashes |-> from_bytes(bytes).hashes]

\* An output with the leaf ahead of the root.
OutputSwapped(r, l, valid) == l \o r \o <<IF valid THEN 1 ELSE 0>>

\* output = root ++ leaf ++ (is_valid as u8)
Output(r, l, valid) == r \o l \o <<IF valid THEN 1 ELSE 0>>

\* The Driver's main, from its reads to commit_slice.
DriverRun(ch) ==
    LET in == ReadInputs(ch)
        parsed == ParseProof(in.proof_bytes)
        res == proof_verify(parsed.hashes, in.root, in.leaf_index, in.leaf,
                            in.total_leaves)
    IN  IF parsed.panic \/ res = "panic"
        THEN [status |-> "panicked", is_valid |-> FALSE, output |-> <<>>]
        ELSE [status |-> "committed", is_valid |-> (res = "true"),
              output |-> Output(in.root, in.leaf, res = "true")]

\* The host's reading of the committed bytes.
DecodeOutput(out) ==
    [root |-> SubSeq(out, 1, 32), leaf |-> SubSeq(out, 33, 64),
     is_valid |-> (out[65] # 0)]

NoReport == [root |-> <<>>, leaf |-> <<>>, is_valid |-> FALSE]

\* What the scripts put on the channel for the state's tree and leaf.
HonestStdin == WriteInputs(root, leaf, proof_bytes, leaf_index, total_leaves)

ReplaceAt(s, k, x) == [j \in 1..Len(s) |-> IF j = k THEN x ELSE s[j]]

\* Digests another host may put in place of an honest one.
OtherDigests == {Junk, root, leaf} \cup {Leaves(total_leaves)[j] : j \in 1..total_leaves}

\* Proof bytes another host may send instead of the honest ones.
OtherProofs ==
    LET path == Chunks(proof_bytes)
    IN  {to_bytes(ReplaceAt(path, k, d)) : k \in 1..Len(path), d \in OtherDigests}
        \cup {to_bytes(Append(path, d)) : d \in {Junk, root}}
        \cup {to_bytes(SubSeq(path, 1, Len(path) - 1)) : k \in 1..Len(path)}
        \cup {Append(proof_bytes, <<<<"junk", <<>>>>, 1>>)}
        \cup {SubSeq(proof_bytes, 1, Len(proof_bytes) - 1) : k \in 1..Len(path)}

----------------------------------------------------------------------------
(* Actions *)

Init ==
    /\ hpc = "start"
    /\ mode = "none"
    /\ total_leaves = 0
    /\ leaf_index = 0
    /\ tree = <<>>
    /\ root = None
    /\ leaf = None
    /\ proof_bytes = <<>>
    /\ stdin = <<>>
    /\ dpc = "idle"
    /\ is_valid = FALSE
    /\ output = <<>>
    /\ report = NoReport

\* script main.rs started with --execute and --prove both set or both unset.
HostUsage ==
    /\ hpc = "start"
    /\ hpc' = "exit"
    /\ UNCHANGED <<mode, total_leaves, leaf_index, tree, root, leaf,
                   proof_bytes, stdin, dpc, is_valid, output, report>>

\* tree.root().expect("Failed to get root") with --total-leaves 0.
HostNoLeaves ==
    /\ hpc = "start"
    /\ \E m \in {"execute", "prove", "evm"} : mode' = m
    /\ tree_root(from_leaves(Leaves(0))) = None
    /\ hpc' = "panicked"
    /\ UNCHANGED <<total_leaves, leaf_index, tree, root, leaf, proof_bytes,
                   stdin, dpc, is_valid, output, report>>

\* Either script, from the leaves to the last stdin.write.
HostSetup ==
    /\ hpc = "start"
    /\ \E m \in {"execute", "prove", "evm"}, n \in 1..MaxLeaves :
         \E i \in 0..(n - 1) :
            LET leaves == Leaves(n)
                t == from_leaves(leaves)
                pb == to_bytes(tree_proof(t, i))
            IN  /\ mode' = m
                /\ total_leaves' = n
                /\ tree' = t
                /\ root' = tree_root(t)
                /\ leaf_index' = i
                /\ leaf' = leaves[i + 1]
                /\ proof_bytes' = pb
                /\ stdin' = WriteInputs(tree_root(t), leaves[i + 1], pb, i, n)
    /\ hpc' = "written"
    /\ UNCHANGED <<dpc, is_valid, output, report>>

\* The Driver run by a host that sends other values than the scripts do:
\* one of the five values differs from the honest one.
ForeignStdin ==
    /\ hpc = "written"
    /\ dpc = "idle"
    /\ stdin = HonestStdin
    /\ \/ \E d \in OtherDigests \ {root} : stdin' = ReplaceAt(stdin, 1, d)
       \/ \E d \in OtherDigests \ {leaf} : stdin' = ReplaceAt(stdin, 2, d)
       \/ \E pb \in OtherProofs \ {proof_bytes} : stdin' = ReplaceAt(stdin, 3, pb)
       \/ \E j \in (0..MaxLeaves) \ {leaf_index} : stdin' = ReplaceAt(stdin, 4, j)
       \/ \E n \in (0..(MaxLeaves + 1)) \ {total_leaves} :
             stdin' = ReplaceAt(stdin, 5, n)
    /\ UNCHANGED <<hpc, mode, total_leaves, leaf_index, tree, root, leaf,
                   proof_bytes, dpc, is_valid, output, report>>

\* program main.rs: one run of the Driver on the channel's contents.
DriverMain ==
    /\ hpc = "written"
    /\ dpc = "idle"
    /\ dpc' = DriverRun(stdin).status
    /\ is_valid' = DriverRun(stdin).is_valid
    /\ output' = DriverRun(stdin).output
    /\ UNCHANGED <<hpc, mode, total_leaves, leaf_index, tree, root, leaf,
                   proof_bytes, stdin, report>>

\* script main.rs --execute: client.execute(..).run().unwrap() and the report.
ExecuteReport ==
    /\ hpc = "written"
    /\ mode = "execute"
    /\ dpc # "idle"
    /\ IF dpc = "committed"
       THEN hpc' = "reported" /\ report' = DecodeOutput(output)
       ELSE hpc' = "panicked" /\ UNCHANGED report
    /\ UNCHANGED <<mode, total_leaves, leaf_index, tree, root, leaf,
                   proof_bytes, stdin, dpc, is_valid, output>>

\* script main.rs --prove: prove, then verify; the output is not decoded.
ProveVerify ==
    /\ hpc = "written"
    /\ mode = "prove"
    /\ dpc # "idle"
    /\ hpc' = IF dpc = "committed" THEN "verified" ELSE "panicked"
    /\ UNCHANGED <<mode, total_leaves, leaf_index, tree, root, leaf,
                   proof_bytes, stdin, dpc, is_valid, output, report>>

\* script evm.rs: prove, then create_proof_fixture on the public values.
CreateProofFixture ==
    /\ hpc = "written"
    /\ mode = "evm"
    /\ dpc # "idle"
    /\ IF dpc = "committed"
       THEN hpc' = "fixture" /\ report' = DecodeOutput(output)
       ELSE hpc' = "panicked" /\ UNCHANGED report
    /\ UNCHANGED <<mode, total_leaves, leaf_index, tree, root, leaf,
                   proof_bytes, stdin, dpc, is_valid, output>>

Next ==
    \/ HostUsage
    \/ HostNoLeaves
    \/ HostSetup
    \/ ForeignStdin
    \/ DriverMain
    \/ ExecuteReport
    \/ ProveVerify
    \/ CreateProofFixture

Spec == Init /\ [][Next]_vars

----------------------------------------------------------------------------
(* Properties *)

Started == hpc \notin {"start", "exit"} /\ total_leaves >= 1
Ran == dpc # "idle"
Honest == Ran /\ stdin = HonestStdin

\* The honest sibling path and the one on the channel.
HonestPath == tree_proof(tree, leaf_index)
SentPath == Chunks(stdin[3])

\* C1. Completeness: for every leaf count n >= 1 and index i < n, the Driver
\* run on the root, leaf i, the encoded path generated for i, i and n finds
\* the proof valid; for n = 1 the root is the leaf and the path is empty.
C1_Completeness ==
    /\ Honest => (dpc = "committed" /\ is_valid)
    /\ (Started /\ total_leaves = 1) => (root = leaf /\ proof_bytes = <<>>)

\* C1 witness: the odd-carry leaf of three leaves has been verified.
C1_Witness ==
    Honest /\ total_leaves = 3 /\ leaf_index = 2 /\ dpc = "committed"

\* C2. Every committed output is 65 bytes: the root read, the leaf read, and
\* one byte that is 1 when verify returned true and 0 when it returned false;
\* nothing else is ever committed.
C2_OutputFormat ==
    /\ dpc = "committed" =>
          /\ Len(output) = 65
          /\ SubSeq(output, 1, 32) = stdin[1]
          /\ SubSeq(output, 33, 64) = stdin[2]
          /\ output[65] = (IF is_valid THEN 1 ELSE 0)
          /\ is_valid = (proof_verify(SentPath, stdin[1], stdin[4], stdin[2],
                                      stdin[5]) = "true")
    /\ dpc # "committed" => output = <<>>

\* C2 witness: a failed verification of a leaf that differs from the root
\* has been committed.
C2_Witness ==
    dpc = "committed" /\ ~ is_valid /\ stdin[1] # stdin[2] /\ output[65] = 0

\* C3. With index >= totalLeaves or totalLeaves = 0 the run aborts and
\* nothing is committed.
C3_IndexOutOfRangeAborts ==
    (Ran /\ (stdin[4] >= stdin[5] \/ stdin[5] = 0)) =>
        (dpc = "panicked" /\ output = <<>>)

\* C4. Proof bytes whose length is not a multiple of 32 abort the Driver
\* before verification: nothing is committed, no validity byte is produced.
C4_MalformedLengthAborts ==
    (Ran /\ Len(stdin[3]) % HashSize # 0) =>
        (dpc = "panicked" /\ output = <<>> /\ ~ is_valid)

\* C4 witness: the Driver has run on proof bytes of such a length.
C4_Witness == Ran /\ Len(stdin[3]) % HashSize # 0 /\ dpc = "panicked"

\* The number of siblings the recombination for (index, totalLeaves) uses.
ExpectedSiblings == HashesNeeded(stdin[4], stdin[5], tree_depth(stdin[5]))

\* C5. A proof of whole 32-byte siblings whose number does not fit the depth
\* implied by (index, totalLeaves) aborts the run instead of being committed.
C5_PathLengthMismatchAborts ==
    (/\ Ran
     /\ Len(stdin[3]) % HashSize = 0
     /\ stdin[4] < stdin[5]
     /\ Len(SentPath) # ExpectedSiblings) =>
        (dpc = "panicked" /\ output = <<>>)

\* Exactly one of leaf, index and one sibling of the honest claim is changed.
LeafChanged ==
    /\ stdin[2] # leaf
    /\ ReplaceAt(stdin, 2, leaf) = HonestStdin
IndexChanged ==
    /\ stdin[4] # leaf_index
    /\ stdin[4] \in 0..(total_leaves - 1)
    /\ ReplaceAt(stdin, 4, leaf_index) = HonestStdin
SiblingChanged ==
    /\ ReplaceAt(stdin, 3, proof_bytes) = HonestStdin
    /\ Len(stdin[3]) = Len(proof_bytes)
    /\ Cardinality({k \in 1..Len(HonestPath) : SentPath[k] # HonestPath[k]}) = 1
OneChange ==
    Ran /\ total_leaves >= 2 /\ (LeafChanged \/ IndexChanged \/ SiblingChanged)

\* C6 as stated. Soundness: after one such change verify returns false.
C6_SoundnessReturnsFalse ==
    OneChange => (dpc = "committed" /\ ~ is_valid)

\* C6 amended. After one such change verify never returns true: the Driver
\* commits validity 0, except that an index changed to one whose
\* recombination needs more siblings than the path holds aborts the run.
C6_SoundnessNeverTrue ==
    OneChange =>
        IF IndexChanged /\ ExpectedSiblings > Len(SentPath)
        THEN dpc = "panicked" /\ output = <<>>
        ELSE dpc = "committed" /\ ~ is_valid /\ output[65] = 0

\* C6 witness: a claim with a changed index has been rejected.
C6_Witness == OneChange /\ IndexChanged /\ dpc = "committed" /\ ~ is_valid

\* C7. Codec round trip: the encoding of a generated path is its digests in
\* order, 32 bytes each, and decoding it succeeds and gives the path back.
C7_CodecRoundTrip ==
    Started =>
        /\ Len(proof_bytes) = 32 * Len(HonestPath)
        /\ \A k \in 1..Len(HonestPath) : \A j \in 1..32 :
              proof_bytes[32 * (k - 1) + j] = HonestPath[k][j]
        /\ from_bytes(proof_bytes).ok
        /\ from_bytes(proof_bytes).hashes = HonestPath

\* C7 witness: a path of two different siblings has been encoded.
C7_Witness ==
    /\ Started
    /\ Len(HonestPath) >= 2
    /\ HonestPath[1] # HonestPath[2]

\* C8. Construction: layer 0 is the leaves; every later layer has
\* ceil(len(prev)/2) entries, entry j being hash(prev[2j] ++ prev[2j+1]) when
\* both exist and prev[2j] carried unchanged otherwise; the root is the single
\* entry of the last layer; three leaves give H(H(L0 ++ L1) ++ L2).
C8_TreeConstruction ==
    Started =>
        /\ tree[1] = Leaves(total_leaves)
        /\ \A k \in 2..Len(tree) :
              /\ Len(tree[k]) = (Len(tree[k - 1]) + 1) \div 2
              /\ \A j \in 1..Len(tree[k]) :
                    tree[k][j] = IF 2 * j <= Len(tree[k - 1])
                                 THEN hash(tree[k - 1][2 * j - 1] \o tree[k - 1][2 * j])
                                 ELSE tree[k - 1][2 * j - 1]
        /\ Len(tree[Len(tree)]) = 1
        /\ root = tree[Len(tree)][1]
        /\ total_leaves = 3 =>
              root = hash(hash(Leaves(3)[1] \o Leaves(3)[2]) \o Leaves(3)[3])

\* C8 witness: a tree with an odd layer of more than one entry has been built.
C8_Witness ==
    Started /\ \E k \in 1..Len(tree) : Len(tree[k]) > 1 /\ Len(tree[k]) % 2 = 1

\* C9 as stated, on the trees of two or more leaves. The generated path has
\* len(layers) - 1 entries, entry k being the sibling of the path node at
\* layer k.
C9_PathOnePerTransition ==
    (Started /\ total_leaves >= 2) =>
        /\ Len(HonestPath) = Len(tree) - 1
        /\ \A k \in 1..Len(HonestPath) :
              HonestPath[k] = tree[k][get_sibling_index(leaf_index \div (2 ^ (k - 1))) + 1]

\* The layers below the top in which the path node has a sibling.
PairedLayers ==
    {k \in 1..(Len(tree) - 1) :
        get_sibling_index(leaf_index \div (2 ^ (k - 1))) < Len(tree[k])}

\* C9 amended. The generated path has one entry for every layer below the top
\* in which the path node has a sibling, in layer order, and none for a layer
\* in which it is the carried odd node: at most len(layers) - 1 entries.
C9_PathOnePerPairedLayer ==
    Started =>
        /\ Len(HonestPath) = Cardinality(PairedLayers)
        /\ Len(HonestPath) <= Len(tree) - 1
        /\ \A k \in PairedLayers :
              HonestPath[Cardinality({m \in PairedLayers : m <= k})] =
                  tree[k][get_sibling_index(leaf_index \div (2 ^ (k - 1))) + 1]

\* C9 witness: a path for a carried odd node, shorter than the transitions.
C9_Witness ==
    /\ Started
    /\ total_leaves = 3
    /\ leaf_index = 2
    /\ Len(HonestPath) = 1
    /\ Len(tree) - 1 = 2

\* C10. Channel agreement: the host writes root, leaf, proof, index, total,
\* the Driver reads them in that order and the host decodes the output where
\* the Driver wrote it; an honest run on total_leaves >= 1 and any index is
\* committed and reported with the host's root and leaf and Is Valid = true.
C10_ChannelAgreement ==
    /\ Started =>
          /\ Len(stdin) = 5
          /\ stdin = HonestStdin =>
                /\ ReadInputs(stdin).root = root
                /\ ReadInputs(stdin).leaf = leaf
                /\ ReadInputs(stdin).proof_bytes = proof_bytes
                /\ ReadInputs(stdin).leaf_index = leaf_index
                /\ ReadInputs(stdin).total_leaves = total_leaves
                /\ hpc # "panicked"
    /\ (hpc \in {"reported", "fixture"} /\ stdin = HonestStdin) =>
          /\ report.root = root
          /\ report.leaf = leaf
          /\ report.is_valid

\* C10 witness: an execute run over three leaves has been reported.
C10_Witness ==
    /\ hpc = "reported"
    /\ mode = "execute"
    /\ stdin = HonestStdin
    /\ total_leaves = 3
    /\ report.root # report.leaf

====
